---- MODULE Spec2Model ----
(***************************************************************************)
(* Conversation / tool-orchestration and emergency-escalation engine of    *)
(* the Dwani assistants: vj/core (ai_processor, dwani_bot,                 *)
(* navigation_handler), vj/ui/streamlit_ui and the chat_with_qwen3 loops   *)
(* of the sachin scripts.                                                  *)
(*                                                                         *)
(* Model text is a sequence of tokens, a JSON value is a tagged record,    *)
(* a Python dict is a function from its keys to JSON values.               *)
(***************************************************************************)
EXTENDS Integers, Sequences, FiniteSets, TLC

(***************************************************************************)
(* Bounds of the model.                                                    *)
(***************************************************************************)
MaxCalls == 12
MaxTurns == 2
MaxChatCalls == 3
MaxTextLen == 3
MaxCaptures == 2

(***************************************************************************)
(* JSON values and Python dicts.                                           *)
(***************************************************************************)
\* A value is tagged with its type; a string is a literal (s) or raw model text
\* (raw, a token sequence).
JBool(b) == [t |-> "bool", s |-> IF b THEN "true" ELSE "false", raw |-> <<>>]
JNull == [t |-> "null", s |-> "null", raw |-> <<>>]
JStr(x) == [t |-> "str", s |-> x, raw |-> <<>>]
JNum(x) == [t |-> "num", s |-> x, raw |-> <<>>]
JEmptyList == [t |-> "list", s |-> "[]", raw |-> <<>>]
RawStr(toks) == [t |-> "str", s |-> "", raw |-> toks]

\* Python truthiness of a decoded JSON value.
IsTruthy(v) ==
    CASE v.t = "bool" -> v.s = "true"
      [] v.t = "null" -> FALSE
      [] v.t = "str" -> v.s # "" \/ v.raw # <<>>
      [] v.t = "num" -> v.s # "0"
      [] v.t = "list" -> v.s # "[]"

EmptyDict == [k \in {} |-> JNull]

\* dict.get(key, default)
DictGet(d, key, default) == IF key \in DOMAIN d THEN d[key] ELSE default

(***************************************************************************)
(* Tokens of model text.                                                   *)
(***************************************************************************)
Tok(x) == [tok |-> x, k |-> "", v |-> JNull]
KV(key, val) == [tok |-> "kv", k |-> key, v |-> val]
LBrace == Tok("{")
RBrace == Tok("}")
Junk == Tok("junk")
WS == Tok(" ")
NL == Tok("nl")
FenceJson == Tok("fence_json")
Fence == Tok("fence")
Num42 == Tok("42")

IsSpace(tk) == tk.tok \in {" ", "nl"}

RECURSIVE LStrip(_)
LStrip(s) == IF s # <<>> /\ IsSpace(Head(s)) THEN LStrip(Tail(s)) ELSE s

RECURSIVE RStrip(_)
RStrip(s) ==
    IF s # <<>> /\ IsSpace(s[Len(s)]) THEN RStrip(SubSeq(s, 1, Len(s) - 1)) ELSE s

\* str.strip()
Strip(s) == RStrip(LStrip(s))

\* str.replace(newline, blank): every newline token becomes a blank
ReplaceNewlines(s) == [i \in 1..Len(s) |-> IF s[i].tok = "nl" THEN WS ELSE s[i]]

\* re.search of an opening brace, anything, a closing brace (DOTALL): the leftmost "{" up to the last "}" after it
BraceOpens(s) == {i \in 1..Len(s) : s[i].tok = "{"}
BraceCloses(s) == {i \in 1..Len(s) : s[i].tok = "}"}
Min(S) == CHOOSE x \in S : \A y \in S : x <= y
Max(S) == CHOOSE x \in S : \A y \in S : x >= y
HasBraceMatch(s) ==
    /\ BraceOpens(s) # {}
    /\ \E j \in BraceCloses(s) : j > Min(BraceOpens(s))
BraceMatch(s) == SubSeq(s, Min(BraceOpens(s)), Max(BraceCloses(s)))

\* json.loads: blanks are skipped; an object is "{" key/value pairs "}", a later
\* pair of the same key wins; a lone number is a scalar; everything else fails.
NoSpace(s) == SelectSeq(s, LAMBDA tk : ~IsSpace(tk))
RECURSIVE DictOf(_)
DictOf(pairs) ==
    IF pairs = <<>> THEN EmptyDict
    ELSE LET rest == DictOf(SubSeq(pairs, 1, Len(pairs) - 1))
             last == pairs[Len(pairs)]
         IN  [k \in (DOMAIN rest) \cup {last.k} |->
                 IF k = last.k THEN last.v ELSE rest[k]]
JsonLoads(s) ==
    LET b == NoSpace(s)
        n == Len(b)
    IN  IF /\ n >= 2
           /\ b[1].tok = "{"
           /\ b[n].tok = "}"
           /\ \A i \in 2..(n - 1) : b[i].tok = "kv"
        THEN [ok |-> TRUE, type |-> "dict", d |-> DictOf(SubSeq(b, 2, n - 1))]
        ELSE IF n = 1 /\ b[1].tok = "42"
        THEN [ok |-> TRUE, type |-> "int", d |-> EmptyDict]
        ELSE [ok |-> FALSE, type |-> "JSONDecodeError", d |-> EmptyDict]

(***************************************************************************)
(* Outcome of one text_model.generate_content call: it raises, or yields   *)
(* a response whose text is None or a string.                              *)
(***************************************************************************)
Raises == [kind |-> "exception", text |-> <<>>]
NoText == [kind |-> "none", text |-> <<>>]
Says(toks) == [kind |-> "text", text |-> toks]

(***************************************************************************)
(* AIProcessor.analyze_emergency_intent                                    *)
(***************************************************************************)
DefaultAssessment(speak) ==
    [k \in {"is_emergency", "urgency_level", "detected_hazards", "required_action",
            "emergency_type", "speak"} |->
        CASE k = "is_emergency" -> JBool(FALSE)
          [] k = "urgency_level" -> JStr("low")
          [] k = "detected_hazards" -> JEmptyList
          [] k = "required_action" -> JStr("none")
          [] k = "emergency_type" -> JStr("none")
          [] k = "speak" -> JStr(speak)]

Returned(type, d) == [raised |-> FALSE, type |-> type, d |-> d]
Raised(type) == [raised |-> TRUE, type |-> type, d |-> EmptyDict]

\* lines 223-231: strip, drop a leading json fence, a leading fence, a trailing fence, strip
DropPrefix(s, tk) == IF s # <<>> /\ Head(s) = tk THEN Tail(s) ELSE s
DropSuffix(s, tk) == IF s # <<>> /\ s[Len(s)] = tk THEN SubSeq(s, 1, Len(s) - 1) ELSE s
CleanDescription(description) ==
    Strip(DropSuffix(DropPrefix(DropPrefix(Strip(description), FenceJson), Fence), Fence))

\* lines 233-241: the text json.loads is given
JsonCandidate(description) ==
    LET cleaned == CleanDescription(description)
    IN  IF HasBraceMatch(cleaned) THEN BraceMatch(cleaned) ELSE cleaned

AnalyzeNoHandlers(outcome) ==
    IF outcome.kind = "exception" THEN Raised("Exception")
    ELSE IF outcome.kind = "none" \/ outcome.text = <<>>
    THEN Returned("dict", DefaultAssessment("No analysis available"))
    ELSE LET result == JsonLoads(JsonCandidate(outcome.text))
         IN  IF result.ok THEN Returned(result.type, result.d)
             ELSE Raised("JSONDecodeError")

AnalyzeEmergencyIntent(outcome) ==
    IF outcome.kind = "exception"
    THEN \* lines 262-270
         Returned("dict", DefaultAssessment("Error analyzing emergency intent"))
    ELSE IF outcome.kind = "none" \/ outcome.text = <<>>
    THEN \* lines 242-250
         Returned("dict", DefaultAssessment("No analysis available"))
    ELSE LET result == JsonLoads(JsonCandidate(outcome.text))
         IN  IF result.ok
             THEN Returned(result.type, result.d)
             ELSE \* lines 251-260
                  Returned("dict", DefaultAssessment("Analysis completed but parsing failed"))

(***************************************************************************)
(* AIProcessor._parse_structured_response and process_user_message         *)
(***************************************************************************)
ReplyKeys ==
    {"speak", "action", "direction", "distance", "urgency", "hazards_detected",
     "safe_direction"}

\* the default dict of lines 144-152, 162-170 and 174-182; speak is the raw text
DefaultReply(speak) ==
    [k \in ReplyKeys |->
        CASE k = "speak" -> speak
          [] k = "distance" -> JNum("0")
          [] k = "hazards_detected" -> JEmptyList
          [] k = "urgency" -> JStr("low")
          [] OTHER -> JStr("none")]

\* a merge that returns the decoded object as it came
MergeNothing(result, defaults) == result

\* lines 155-157: keys missing from result are filled from the defaults
MergeDefaults(result, defaults) ==
    [k \in (DOMAIN result) \cup (DOMAIN defaults) |->
        IF k \in DOMAIN result THEN result[k] ELSE defaults[k]]

ParseStructuredResponse(outcome) ==
    IF outcome.kind = "none"
    THEN \* re.search on None raises TypeError, caught at line 172
         DefaultReply(JNull)
    ELSE LET response_text == outcome.text IN
         IF HasBraceMatch(response_text)
         THEN LET result == JsonLoads(ReplaceNewlines(BraceMatch(response_text)))
              IN  IF result.ok
                  THEN MergeDefaults(result.d, DefaultReply(RawStr(response_text)))
                  ELSE DefaultReply(RawStr(response_text))
         ELSE DefaultReply(RawStr(response_text))

\* the reply of lines 119-128
ErrorReply == DefaultReply(JStr("I am sorry, I encountered an error processing your message"))

Turn(role, content) == [role |-> role, content |-> content]
system_message == Turn("system", JStr("You are Dwani AI"))

\* line 87: the context block, when a context is given, then "User says: " and the message
UserContent(hasContext, message) ==
    [t |-> "str",
     s |-> IF hasContext THEN "Live Situation ... User says: " ELSE "User says: ",
     raw |-> message]

\* a trim that keeps the last 21 entries and does not put the system message back
TrimHistoryLast21(h) == IF Len(h) > 21 THEN SubSeq(h, Len(h) - 20, Len(h)) ELSE h

\* a trim that keeps the 20 oldest turns instead of the 20 latest
TrimHistoryOldest(h) ==
    IF Len(h) > 21 THEN <<system_message>> \o SubSeq(h, 2, 21) ELSE h

\* a trim that keeps an odd number of turns and so splits an exchange
TrimHistoryLast19(h) ==
    IF Len(h) > 21 THEN <<system_message>> \o SubSeq(h, Len(h) - 18, Len(h)) ELSE h

\* lines 114-115
TrimHistory(h) ==
    IF Len(h) > 21 THEN <<system_message>> \o SubSeq(h, Len(h) - 19, Len(h)) ELSE h

\* a rendering that appends the pending user message to the history itself
HistoryAfterRenderInPlace(history, user_message) == Append(history, user_message)

\* line 91: the + operator builds a new list, self.conversation_history is left as it was
HistoryAfterRender(history, user_message) == history
FullConversation(history, user_message) == history \o <<user_message>>

\* str.title() of a role
Title(role) ==
    CASE role = "system" -> "System" [] role = "user" -> "User"
      [] role = "assistant" -> "Assistant" [] OTHER -> role

\* lines 94-97: one line per message, the titled role, a colon and the content
ConversationText(full_conversation) ==
    [i \in 1..Len(full_conversation) |->
        [speaker |-> Title(full_conversation[i].role),
         content |-> full_conversation[i].content]]

RenderForModel(history, message, hasContext) ==
    ConversationText(FullConversation(history,
                                      Turn("user", UserContent(hasContext, message))))

\* a call that has appended the user turn when the model call raises
HistoryAfterFailureKeepsUser(history, user_message) == Append(history, user_message)

\* lines 100-111 and 119-128: the model call comes before both appends, so the
\* handler returns with the history as it was
HistoryAfterFailure(history, user_message) == history

ProcessUserMessage(history, message, hasContext, outcome) ==
    LET user_message == Turn("user", UserContent(hasContext, message))
        kept == HistoryAfterRender(history, user_message)
    IN  IF outcome.kind = "exception"
        THEN [history |-> HistoryAfterFailure(kept, user_message), reply |-> ErrorReply]
        ELSE LET structured == ParseStructuredResponse(outcome)
                 response_text == IF outcome.kind = "text" THEN RawStr(outcome.text) ELSE JNull
                 \* line 110: structured_response.get('speak', response_text)
                 assistant == Turn("assistant", DictGet(structured, "speak", response_text))
             IN  [history |-> TrimHistory(kept \o <<user_message, assistant>>),
                  reply |-> structured]

(***************************************************************************)
(* Text built by the program: a string of words.                           *)
(***************************************************************************)
W(words) == [i \in 1..Len(words) |-> Tok(words[i])]
Text(words) == RawStr(W(words))
Contains(text, word) == \E i \in 1..Len(text.raw) : text.raw[i] = Tok(word)

\* str.upper() of an emergency type
UpperStr(x) ==
    CASE x = "fire" -> "FIRE"
      [] x = "medical" -> "MEDICAL"
      [] x = "flood" -> "FLOOD"
      [] x = "unknown" -> "UNKNOWN"
      [] x = "none" -> "NONE"
      [] OTHER -> x

\* str() of a value inside an f-string
Shown(v) == IF v.t = "null" THEN "None" ELSE v.s

(***************************************************************************)
(* NavigationHandler                                                       *)
(***************************************************************************)
safe_places ==
    [k \in {"hospital", "fire_station", "police_station", "shelter", "train_station",
            "park"} |->
        CASE k = "hospital" ->
                [name |-> "University Hospital Duesseldorf", address |-> "Moorenstrasse 5",
                 type |-> "hospital"]
          [] k = "fire_station" ->
                [name |-> "Fire Station Duesseldorf Central", address |-> "Berger Allee 25",
                 type |-> "fire_station"]
          [] k = "police_station" ->
                [name |-> "Police Station Duesseldorf", address |-> "Juergensplatz 1",
                 type |-> "police"]
          [] k = "shelter" ->
                [name |-> "Emergency Shelter Duesseldorf", address |-> "Koenigsallee 92",
                 type |-> "shelter"]
          [] k = "train_station" ->
                [name |-> "Duesseldorf Hauptbahnhof", address |-> "Konrad-Adenauer-Platz 14",
                 type |-> "transportation"]
          [] k = "park" ->
                [name |-> "Hofgarten Park", address |-> "Hofgarten", type |-> "open_space"]]

priority_map ==
    [k \in {"fire", "medical", "structural", "chemical", "general"} |->
        CASE k = "fire" -> <<"fire_station", "park", "shelter">>
          [] k = "medical" -> <<"hospital", "fire_station", "shelter">>
          [] k = "structural" -> <<"park", "shelter", "train_station">>
          [] k = "chemical" -> <<"hospital", "fire_station", "park">>
          [] k = "general" -> <<"shelter", "park", "train_station">>]

NoPlace == [name |-> "", address |-> "", type |-> ""]

\* get_nearest_safe_place that takes the first key of the list, in the catalog or not
GetNearestSafePlaceFirstKey(places, emergency_type) ==
    LET priority_list ==
            IF emergency_type.t = "str" /\ emergency_type.s \in DOMAIN priority_map
            THEN priority_map[emergency_type.s]
            ELSE priority_map["general"]
    IN  IF priority_list[1] \in DOMAIN places THEN places[priority_list[1]] ELSE NoPlace

\* lines 184-191; emergency_type is a decoded value, a key of priority_map only if a string
GetNearestSafePlace(places, emergency_type) ==
    LET priority_list ==
            IF emergency_type.t = "str" /\ emergency_type.s \in DOMAIN priority_map
            THEN priority_map[emergency_type.s]
            ELSE priority_map["general"]
        present == {i \in 1..Len(priority_list) : priority_list[i] \in DOMAIN places}
    IN  IF present = {} THEN NoPlace ELSE places[priority_list[Min(present)]]

\* What the geocoder and the router answer during one planning request.
Net(origin, dest, route) == [origin |-> origin, dest |-> dest, route |-> route]
PlannerOutcomes ==
    {Net("coords", "coords", "route"), Net("none", "coords", "route"),
     Net("coords", "none", "route"), Net("coords", "coords", "none"),
     Net("coords", "coords", "malformed")}

NoRoute == [found |-> FALSE, safe_place |-> NoPlace, distance |-> "", duration |-> ""]

\* generate_evacuation_route without the check of the geocoder's answers
GenerateEvacuationRouteUnchecked(emergency_type, net) ==
    LET safe_place == GetNearestSafePlace(safe_places, emergency_type)
    IN  IF safe_place = NoPlace \/ net.route # "route" THEN NoRoute
        ELSE [found |-> TRUE, safe_place |-> safe_place, distance |-> "850",
              duration |-> "10.5"]

\* NavigationHandler.generate_evacuation_route, lines 204-246
GenerateEvacuationRoute(emergency_type, net) ==
    LET safe_place == GetNearestSafePlace(safe_places, emergency_type)
    IN  IF safe_place = NoPlace THEN NoRoute
        ELSE IF net.origin = "none" \/ net.dest = "none" THEN NoRoute
        ELSE IF net.route = "none" THEN NoRoute
        ELSE IF net.route = "malformed" THEN NoRoute
        ELSE [found |-> TRUE, safe_place |-> safe_place, distance |-> "850",
              duration |-> "10.5"]

\* NavigationHandler.format_route_instructions, lines 258-281
FormatRouteInstructions(route_info) ==
    Text(<<"EMERGENCY EVACUATION ROUTE", "Destination:", route_info.safe_place.name,
           "Address:", route_info.safe_place.address, "Type:", route_info.safe_place.type,
           "Total Distance:", route_info.distance, "meters", "Estimated Time:",
           route_info.duration, "minutes", "Step-by-step instructions:",
           "Follow these directions carefully and stay calm.">>)

(***************************************************************************)
(* DwaniAIBot: the emergency branch.  Every operator yields the text it    *)
(* returns and the calls it made, in order.                                *)
(***************************************************************************)
Call(fn, arg) == [fn |-> fn, arg |-> arg]

CouldNotGenerate ==
    Text(<<"Could", "not", "generate", "evacuation", "route.", "Please", "evacuate", "to",
           "the", "nearest", "safe", "location.">>)

\* DwaniAIBot.generate_emergency_evacuation, lines 303-322
GenerateEmergencyEvacuation(emergency_type, net) ==
    LET route_info == GenerateEvacuationRoute(emergency_type, net)
        planned == <<Call("generate_evacuation_route", emergency_type)>>
    IN  IF ~route_info.found
        THEN [text |-> CouldNotGenerate, calls |-> planned]
        ELSE LET instructions == FormatRouteInstructions(route_info)
             IN  [text |-> instructions,
                  calls |-> planned \o
                      <<Call("speak_text",
                             Text(<<"Emergency evacuation route generated.",
                                    route_info.safe_place.name, "is", route_info.distance,
                                    "meters away.">>))>>]

\* handle_emergency_situation that never plans a route
HandleEmergencyNeverPlans(emergency_type, urgency_level, net) ==
    LET response == Text(<<"Warning:", Shown(emergency_type), "detected.">>)
    IN  [text |-> response, calls |-> <<Call("speak_text", response)>>]

\* DwaniAIBot.handle_emergency_situation, lines 270-290
HandleEmergencySituation(emergency_type, urgency_level, net) ==
    IF urgency_level.t = "str" /\ urgency_level.s \in {"high", "critical"}
    THEN IF emergency_type.t # "str"
         THEN \* emergency_type.upper() raises, caught at line 289
              [text |-> Text(<<"Error handling emergency:", "AttributeError">>),
               calls |-> <<>>]
         ELSE LET evac == GenerateEmergencyEvacuation(emergency_type, net)
                  response ==
                      RawStr(W(<<"EMERGENCY ALERT:", UpperStr(emergency_type.s), "detected!",
                                 "Evacuate immediately and call emergency services.">>)
                             \o <<NL, NL>> \o evac.text.raw)
              IN  [text |-> response,
                   calls |-> evac.calls \o <<Call("speak_emergency_alert", response)>>]
    ELSE LET response == Text(<<"Warning:", Shown(emergency_type), "detected.">>)
         IN  [text |-> response, calls |-> <<Call("speak_text", response)>>]

(***************************************************************************)
(* SpeechHandler.listen_to_voice: the transcription service answers with   *)
(* a status and a text, or the recording or the request raises.            *)
(***************************************************************************)
Heard(status, chars) == [status |-> status, text |-> W(chars)]

\* listen_to_voice that hands on whatever text the service returned, unstripped
ListenToVoiceUnstripped(resp) == [success |-> resp.status = "200", text |-> resp.text]

ListenToVoice(resp) ==
    IF resp.status = "exception"
    THEN [success |-> FALSE, text |-> W(<<"Error during recording or transcription">>)]
    ELSE IF resp.status # "200"
    THEN [success |-> FALSE, text |-> W(<<"Transcription error">>)]
    ELSE LET transcription == Strip(resp.text)
         IN  IF transcription # <<>>
             THEN [success |-> TRUE, text |-> transcription]
             ELSE [success |-> FALSE, text |-> W(<<"Transcription empty, try again.">>)]

\* str.lower()
LowerCh(c) ==
    CASE c = "S" -> "s" [] c = "T" -> "t" [] c = "O" -> "o" [] c = "P" -> "p"
      [] c = "Q" -> "q" [] c = "H" -> "h" [] OTHER -> c
Lower(s) == [i \in 1..Len(s) |-> Tok(LowerCh(s[i].tok))]

\* str.isspace()
IsSpaceOnly(s) == s # <<>> /\ \A i \in 1..Len(s) : IsSpace(s[i])

STOP_WORDS ==
    {W(<<"s", "t", "o", "p">>), W(<<"e", "x", "i", "t">>), W(<<"q", "u", "i", "t">>),
     W(<<"g", "o", "o", "d", "b", "y", "e">>)}

(***************************************************************************)
(* Sample model texts.                                                     *)
(***************************************************************************)
Obj(fields) == <<LBrace>> \o fields \o <<RBrace>>
PlainText == <<Junk, WS, Junk>>
ReplyWithSpeak == <<Junk, NL>> \o Obj(<<KV("speak", JStr("Turn left")), NL,
                                        KV("action", JStr("navigate"))>>)
ReplyWithoutSpeak == Obj(<<KV("action", JStr("wait"))>>)
ReplyEmptySpeak == Obj(<<KV("speak", JStr(""))>>)
ReplyBroken == <<LBrace, Junk, RBrace>>

Assess(fields) == Obj(fields)
IsEm(v) == KV("is_emergency", v)
Urg(x) == KV("urgency_level", JStr(x))
Typ(v) == KV("emergency_type", v)

\* What the model may answer to the emergency prompt.
ClassifierOutcomes ==
    {Raises, Says(<<>>), Says(PlainText), Says(ReplyBroken), Says(<<Num42>>),
     Says(<<FenceJson, NL>> \o Assess(<<IsEm(JBool(TRUE)), Urg("high"), Typ(JStr("fire"))>>)
          \o <<NL, Fence>>),
     Says(<<Junk, WS>> \o Assess(<<IsEm(JBool(TRUE)), Urg("critical"), Typ(JStr("medical"))>>)),
     Says(Assess(<<IsEm(JBool(TRUE)), Urg("low"), Typ(JStr("fire"))>>)),
     Says(Assess(<<IsEm(JBool(TRUE)), Urg("medium"), Typ(JStr("flood"))>>)),
     Says(Assess(<<IsEm(JBool(TRUE)), Urg("high"), Typ(JNull)>>)),
     Says(Assess(<<IsEm(JBool(TRUE))>>)),
     Says(Assess(<<IsEm(JBool(FALSE)), Urg("low"), Typ(JStr("none"))>>)),
     Says(Assess(<<IsEm(JStr("false")), Urg("high"), Typ(JStr("fire"))>>)),
     Says(Assess(<<>>))}

\* What the model may answer to a conversation prompt.
ChatOutcomes ==
    {Raises, NoText, Says(PlainText), Says(ReplyWithSpeak), Says(ReplyEmptySpeak)}

\* What the transcription service may answer.
Transcriptions ==
    {Heard("500", <<>>), Heard("200", <<" ">>),
     Heard("200", <<" ", "S", "t", "o", "p">>), Heard("200", <<"h", "e", "l", "p">>)}

\* What the transcription service may answer to a recording made from the
\* Streamlit pages, where no stop word is looked for.
VoiceCommands ==
    {Heard("500", <<>>), Heard("200", <<" ">>), Heard("200", <<"h", "e", "l", "p">>)}

\* Messages typed into the text chat.
TextMessages == {W(<<"h", "e", "l", "p">>)}

VARIABLES
    conversation_history,   \* AIProcessor.conversation_history
    calls,                  \* process_user_message calls made so far
    reply,                  \* the value the last process_user_message returned
    frontend,               \* the program that owns the bot: main.py or the Streamlit UI
    entry,                  \* the entry point that is running: none, text, voice, loop, streamlit
    pc,                     \* where the running turn stands
    utterance,              \* the utterance of the running turn
    analysis,               \* what analyze_emergency_intent returned in this turn
    outcome_seen,           \* what the model answered to the emergency prompt in this turn
    net_seen,               \* what the geocoder and router answered in this turn
    trace,                  \* the calls of this turn, in order
    messages,               \* the messages list of speech_mode_loop
    bot_history,            \* DwaniAIBot.conversation_history
    result,                 \* what the entry point returned
    turns,                  \* utterances requested so far
    exit_reason,            \* why speech_mode_loop left its loop
    saved_log,              \* what was written to conversation_history.json
    script,                 \* the sachin script whose chat_with_qwen3 runs
    qpc,                    \* where chat_with_qwen3 stands
    qmessages,              \* the messages list of chat_with_qwen3
    tool_calls,             \* response_message.tool_calls of the latest chat reply
    chat_calls,             \* chat completions requested for the current user turn
    prompts,                \* user turns accepted so far
    rendered,               \* the conversation last rendered for the model by a direct call
    asked,                  \* exchanges the caller of process_user_message has got through
    model_text,             \* a model answer given to the reply functions
    parsed,                 \* what _parse_structured_response made of model_text
    returned,               \* what process_user_message returned for model_text
    latest_image_description, \* vision_assistance: the cached description and timestamp
    description_lock,       \* vision_assistance: who holds description_lock
    ppc,                    \* where background_image_capture stands
    image_data,             \* the result of the capture in background_image_capture
    captures,               \* captures that have returned
    rpc,                    \* where the chat loop of vision_assistance stands
    seen,                   \* image_description and image_timestamp of the chat loop
    transcribed_text,       \* transcribed_text of the chat loop
    vmessages,              \* the messages list of the chat loop
    vturns,                 \* recordings the chat loop has accepted
    called,                 \* a function called on its own: its name and arguments
    call_result             \* <<v>> once that call has returned v

histVars == <<conversation_history, calls, reply>>
loopVars ==
    <<frontend, entry, pc, utterance, analysis, outcome_seen, net_seen, trace, messages, bot_history,
      result, turns, exit_reason>>
botVars == <<loopVars, saved_log>>
chatVars == <<script, qpc, qmessages, tool_calls, chat_calls, prompts>>
renderVars == <<rendered, asked>>
replyVars == <<model_text, parsed, returned>>
visionVars ==
    <<latest_image_description, description_lock, ppc, image_data, captures, rpc, seen,
      transcribed_text, vmessages, vturns>>
callVars == <<called, call_result>>
vars == <<histVars, botVars, chatVars, renderVars, replyVars, visionVars, callVars>>

NoAnalysis == [raised |-> FALSE, type |-> "unset", d |-> EmptyDict]
NoNet == [origin |-> "unset", dest |-> "unset", route |-> "unset"]
NoResult == [ok |-> FALSE, text |-> JNull]

\* vision_assistance line 71
InitialDescription == [description |-> JStr(""), timestamp |-> JNull]
NoImageData == [kind |-> "none", description |-> JNull, timestamp |-> JNull]

\* no function has been called on its own
NoCall == [fn |-> "none", args |-> <<>>]
CallIdle ==
    /\ called = NoCall
    /\ call_result = <<>>

VisionIdle ==
    /\ latest_image_description = InitialDescription
    /\ description_lock = "free"
    /\ ppc = "not started"
    /\ image_data = NoImageData
    /\ captures = 0
    /\ rpc = "not started"
    /\ seen = InitialDescription
    /\ transcribed_text = JNull
    /\ vmessages = <<>>
    /\ vturns = 0

RenderIdle ==
    /\ rendered = <<>>
    /\ asked = 0

\* no model answer is under test
NotAsked == [kind |-> "unset", text |-> <<>>]
ReplyIdle ==
    /\ model_text = NotAsked
    /\ parsed = EmptyDict
    /\ returned = EmptyDict

ChatIdle ==
    /\ script = "none"
    /\ qpc = "stopped"
    /\ qmessages = <<>>
    /\ tool_calls = <<>>
    /\ chat_calls = 0
    /\ prompts = 0

BotIdle ==
    /\ entry = "none"
    /\ pc = "idle"
    /\ utterance = <<>>
    /\ analysis = NoAnalysis
    /\ outcome_seen = NoText
    /\ net_seen = NoNet
    /\ trace = <<>>
    /\ messages = <<>>
    /\ bot_history = <<>>
    /\ result = NoResult
    /\ turns = 0
    /\ exit_reason = "none"
    /\ saved_log = <<>>

NoReply == EmptyDict

(***************************************************************************)
(* SpecHistory: any sequence of process_user_message calls on one          *)
(* AIProcessor.                                                            *)
(***************************************************************************)
\* the caller asks one message after the other and asks a message again when
\* the call failed
HistMessage(n) == W(<<"m", ToString(n)>>)
HistOutcomes == {Raises, Says(PlainText), Says(ReplyWithSpeak)}

InitHistory ==
    /\ conversation_history = <<system_message>>
    /\ calls = 0
    /\ reply = NoReply
    /\ frontend = "none"
    /\ BotIdle
    /\ ChatIdle
    /\ RenderIdle
    /\ ReplyIdle
    /\ VisionIdle
    /\ CallIdle

CallProcessUserMessage ==
    /\ frontend = "none"
    /\ script = "none"
    /\ model_text = NotAsked
    /\ rpc = "not started"
    /\ called = NoCall
    /\ calls < MaxCalls
    /\ \E hasContext \in {FALSE}, outcome \in HistOutcomes :
          LET message == HistMessage(asked + 1)
              r == ProcessUserMessage(conversation_history, message, hasContext, outcome)
          IN  /\ conversation_history' = r.history
              /\ reply' = r.reply
              /\ rendered' = RenderForModel(conversation_history, message, hasContext)
              /\ asked' = IF outcome.kind = "exception" THEN asked ELSE asked + 1
    /\ calls' = calls + 1
    /\ UNCHANGED <<botVars, chatVars, replyVars, visionVars, callVars>>

NextHistory == CallProcessUserMessage

SpecHistory == InitHistory /\ [][NextHistory]_vars

\* C1: after any sequence of process_user_message calls, conversation_history
\* starts with the system message, holds no other system turn and has at most
\* 21 entries.
C1_HistoryBounded ==
    /\ Len(conversation_history) >= 1
    /\ conversation_history[1] = system_message
    /\ \A i \in 2..Len(conversation_history) : conversation_history[i].role # "system"
    /\ Len(conversation_history) <= 21

\* a full history that has been trimmed at least once
C1_Witness ==
    /\ Len(conversation_history) = 21
    /\ calls >= 11
    /\ reply # NoReply
    /\ reply["speak"] # ErrorReply["speak"]

(***************************************************************************)
(* SpecBot: the dialogue entry points of DwaniAIBot (process_text_message, *)
(* process_voice_command, speech_mode_loop) and the speech mode turn of    *)
(* the Streamlit UI, on one bot.  The timestamp of a history entry is left *)
(* out.                                                                    *)
(***************************************************************************)
HistoryEntry(type, input, output_text, output_dict, emergency_type, urgency_level) ==
    [type |-> type, input |-> input, output_text |-> output_text,
     output_dict |-> output_dict, emergency_type |-> emergency_type,
     urgency_level |-> urgency_level]

\* main.py (run_bot_directly, run_speech_mode) constructs a bot and runs
\* speech_mode_loop; the Streamlit UI constructs a bot and calls the other three.
InitBot ==
    /\ conversation_history = <<system_message>>
    /\ calls = 0
    /\ reply = NoReply
    /\ frontend \in {"main", "streamlit_ui"}
    /\ BotIdle
    /\ ChatIdle
    /\ RenderIdle
    /\ ReplyIdle
    /\ VisionIdle
    /\ CallIdle

BeginTurn(e, u, firstCalls) ==
    /\ entry' = e
    /\ utterance' = u
    /\ trace' = firstCalls
    /\ analysis' = NoAnalysis
    /\ outcome_seen' = NoText
    /\ net_seen' = NoNet
    /\ result' = NoResult
    /\ turns' = turns + 1

\* process_text_message is called with a message
StartTextMessage ==
    /\ frontend = "streamlit_ui"
    /\ pc = "idle"
    /\ turns < MaxTurns
    /\ \E message \in TextMessages : BeginTurn("text", message, <<>>)
    /\ pc' = "classify"
    /\ UNCHANGED <<renderVars, replyVars, visionVars, callVars, chatVars, histVars, frontend, messages, bot_history, exit_reason, saved_log>>

\* process_voice_command, lines 69-79
StartVoiceCommand ==
    /\ frontend = "streamlit_ui"
    /\ pc = "idle"
    /\ turns < MaxTurns
    /\ \E resp \in VoiceCommands :
          LET heard == ListenToVoice(resp)
              listened == <<Call("listen_to_voice", RawStr(heard.text))>>
          IN  /\ BeginTurn("voice", IF heard.success THEN heard.text ELSE <<>>, listened)
              /\ pc' = IF heard.success /\ heard.text # <<>> /\ ~IsSpaceOnly(heard.text)
                       THEN "classify" ELSE "idle"
    /\ UNCHANGED <<renderVars, replyVars, visionVars, callVars, chatVars, histVars, frontend, messages, bot_history, exit_reason, saved_log>>

\* render_speech_mode, lines 271-283: listen, then straight to process_user_message
StartStreamlitSpeechTurn ==
    /\ frontend = "streamlit_ui"
    /\ pc = "idle"
    /\ turns < MaxTurns
    /\ \E resp \in VoiceCommands :
          LET heard == ListenToVoice(resp)
              listened == <<Call("listen_to_voice", RawStr(heard.text))>>
          IN  /\ BeginTurn("streamlit", IF heard.success THEN heard.text ELSE <<>>, listened)
              /\ pc' = IF heard.success /\ heard.text # <<>> /\ ~IsSpaceOnly(heard.text)
                       THEN "chat" ELSE "idle"
    /\ UNCHANGED <<renderVars, replyVars, visionVars, callVars, chatVars, histVars, frontend, messages, bot_history, exit_reason, saved_log>>

\* speech_mode_loop is entered, lines 450-457
StartSpeechModeLoop ==
    /\ frontend = "main"
    /\ pc = "idle"
    /\ turns < MaxTurns
    /\ entry' = "loop"
    /\ pc' = "listen"
    /\ messages' = <<>>
    /\ exit_reason' = "none"
    /\ UNCHANGED <<renderVars, replyVars, visionVars, callVars, chatVars, histVars, frontend, utterance, analysis, outcome_seen, net_seen, trace,
                   bot_history, result, turns, saved_log>>

\* speech_mode_loop, lines 458-468: listen; no input, a stop word, or an utterance
LoopListen ==
    /\ entry = "loop"
    /\ pc = "listen"
    /\ turns < MaxTurns
    /\ \E resp \in Transcriptions :
          LET heard == ListenToVoice(resp)
              listened == <<Call("listen_to_voice", RawStr(heard.text))>>
          IN  /\ BeginTurn("loop", IF heard.success THEN heard.text ELSE <<>>, listened)
              /\ IF ~heard.success
                 THEN pc' = "listen" /\ UNCHANGED <<exit_reason, saved_log>>
                 ELSE IF Lower(Strip(heard.text)) \in STOP_WORDS
                 THEN \* break, then the finally block of lines 532-535
                      /\ pc' = "exit"
                      /\ exit_reason' = "stop_word"
                      /\ saved_log' = messages
                 ELSE pc' = "classify" /\ UNCHANGED <<exit_reason, saved_log>>
    /\ UNCHANGED <<renderVars, replyVars, visionVars, callVars, chatVars, histVars, frontend, messages, bot_history>>

\* KeyboardInterrupt while speech_mode_loop runs, lines 528-535
LoopInterrupt ==
    /\ entry = "loop"
    /\ pc \in {"listen", "classify", "emergency", "chat", "respond"}
    /\ pc' = "exit"
    /\ exit_reason' = "interrupt"
    /\ saved_log' = messages
    /\ UNCHANGED <<renderVars, replyVars, visionVars, callVars, chatVars, histVars, frontend, entry, utterance, analysis, outcome_seen, net_seen, trace,
                   messages, bot_history, result, turns>>

\* speech_mode_loop returns and main.py ends
LoopReturn ==
    /\ entry = "loop"
    /\ pc = "exit"
    /\ pc' = "done"
    /\ entry' = "none"
    /\ UNCHANGED <<renderVars, replyVars, visionVars, callVars, chatVars, histVars, frontend, utterance, analysis, outcome_seen, net_seen, trace, messages,
                   bot_history, result, turns, exit_reason, saved_log>>

\* an exception that is not caught inside the loop ends speech_mode_loop through
\* the outer handler and the finally block
ExceptionEndsLoop(e, message) ==
    /\ pc' = IF e = "loop" THEN "exit" ELSE "idle"
    /\ result' = IF e = "loop" THEN result ELSE [ok |-> FALSE, text |-> Text(message)]
    /\ exit_reason' = IF e = "loop" THEN "fatal" ELSE exit_reason
    /\ saved_log' = IF e = "loop" THEN messages ELSE saved_log

\* An exception reaches the handler of the entry point: lines 125-128 and 177-180
\* return the error message, lines 526-527 print it and go on with the loop
ExceptionCaught(e, message) ==
    /\ pc' = IF e = "loop" THEN "listen" ELSE "idle"
    /\ result' = IF e = "loop" THEN result ELSE [ok |-> FALSE, text |-> Text(message)]
    /\ UNCHANGED <<exit_reason, saved_log>>

\* the emergency branch without its return or continue: the turn goes on to the chat call
EmergencyFallsThrough(e) == "chat"

\* where the turn stands after the emergency branch: return (lines 102, 162), continue (line 498)
AfterEmergency(e) == IF e = "loop" THEN "listen" ELSE "idle"

\* an emergency branch that logs the alert without the utterance
LogAlertOnly(log, u, response) == Append(log, Turn("assistant", response))

\* lines 484-486: the utterance and the emergency response go to the messages log
LogEmergency(log, u, response) ==
    log \o <<Turn("user", RawStr(u)), Turn("assistant", response)>>

\* lines 82-85, 142-145, 471-474: classify the utterance and pick the branch
Classify ==
    /\ pc = "classify"
    /\ \E outcome \in ClassifierOutcomes :
          LET a == AnalyzeEmergencyIntent(outcome)
          IN  /\ outcome_seen' = outcome
              /\ analysis' = a
              /\ IF a.raised \/ a.type # "dict"
                 THEN \* the exception of the classifier, or of .get on a value that is no dict
                      /\ trace' = trace \o
                            <<Call("analyze_emergency_intent", RawStr(utterance)),
                              Call("print_exception", Text(<<"AttributeError">>))>>
                      /\ ExceptionCaught(entry, <<"Error processing message:", "AttributeError">>)
                 ELSE /\ trace' = trace \o
                            <<Call("analyze_emergency_intent", RawStr(utterance))>>
                      /\ pc' = IF IsTruthy(DictGet(a.d, "is_emergency", JBool(FALSE)))
                                THEN "emergency" ELSE "chat"
                      /\ UNCHANGED <<result, exit_reason, saved_log>>
    /\ UNCHANGED <<renderVars, replyVars, visionVars, callVars, chatVars, histVars, frontend, entry, utterance, net_seen, messages, bot_history, turns>>

\* lines 86-102, 146-162, 475-498: the emergency branch
EmergencyBranch ==
    /\ pc = "emergency"
    /\ \E net \in PlannerOutcomes :
          LET emergency_type == DictGet(analysis.d, "emergency_type", JStr("unknown"))
              urgency_level == DictGet(analysis.d, "urgency_level", JStr("medium"))
              h == HandleEmergencySituation(emergency_type, urgency_level, net)
              kind == CASE entry = "text" -> "emergency"
                        [] entry = "voice" -> "voice_emergency"
                        [] OTHER -> "speech_emergency"
              planned == \E i \in 1..Len(h.calls) : h.calls[i].fn = "generate_evacuation_route"
          IN  /\ net_seen' = IF planned THEN net ELSE NoNet
              /\ trace' = trace \o <<Call("handle_emergency_situation", emergency_type)>>
                                \o h.calls
              /\ bot_history' = Append(bot_history,
                     HistoryEntry(kind, RawStr(utterance), h.text, EmptyDict, emergency_type,
                                  urgency_level))
              /\ messages' = IF entry = "loop"
                             THEN LogEmergency(messages, utterance, h.text)
                             ELSE messages
              /\ result' = IF entry = "loop" THEN result ELSE [ok |-> TRUE, text |-> h.text]
              /\ pc' = AfterEmergency(entry)
    /\ UNCHANGED <<renderVars, replyVars, visionVars, callVars, chatVars, histVars, frontend, entry, utterance, analysis, outcome_seen, turns, exit_reason,
                   saved_log>>

\* lines 105, 165, 502-506 and streamlit_ui line 276: the chat model call
ChatBranch ==
    /\ pc = "chat"
    /\ \E outcome \in ChatOutcomes :
          LET r == ProcessUserMessage(conversation_history, utterance, FALSE, outcome)
          IN  /\ conversation_history' = r.history
              /\ reply' = r.reply
    /\ calls' = calls + 1
    /\ trace' = trace \o <<Call("process_user_message", RawStr(utterance))>>
    /\ messages' = IF entry = "loop"
                   THEN Append(messages, Turn("user", RawStr(utterance)))
                   ELSE messages
    /\ pc' = "respond"
    /\ UNCHANGED <<renderVars, replyVars, visionVars, callVars, chatVars, frontend, entry, utterance, analysis, outcome_seen, net_seen, bot_history, result,
                   turns, exit_reason, saved_log>>

\* lines 107-123, 167-175, 517-525 and streamlit_ui lines 277-279: the reply is
\* logged, spoken (not by process_text_message) and returned
Respond ==
    /\ pc = "respond"
    /\ LET speak_text == reply["speak"]
           spoken == <<Call("speak_text", speak_text)>>
       IN  /\ trace' = IF entry = "text" THEN trace ELSE trace \o spoken
           /\ bot_history' =
                 IF entry \in {"text", "voice"}
                 THEN Append(bot_history,
                             HistoryEntry(entry, RawStr(utterance), JNull, reply, JNull, JNull))
                 ELSE bot_history
           /\ messages' = IF entry = "loop"
                          THEN Append(messages, Turn("assistant", speak_text))
                          ELSE messages
           /\ result' = IF entry \in {"text", "voice"}
                        THEN [ok |-> TRUE, text |-> speak_text]
                        ELSE result
    /\ pc' = IF entry = "loop" THEN "listen" ELSE "idle"
    /\ UNCHANGED <<renderVars, replyVars, visionVars, callVars, chatVars, histVars, frontend, entry, utterance, analysis, outcome_seen, net_seen, turns,
                   exit_reason, saved_log>>

NextBot ==
    \/ StartTextMessage
    \/ StartVoiceCommand
    \/ StartStreamlitSpeechTurn
    \/ StartSpeechModeLoop
    \/ LoopListen
    \/ LoopInterrupt
    \/ LoopReturn
    \/ Classify
    \/ EmergencyBranch
    \/ ChatBranch
    \/ Respond

SpecBot == InitBot /\ [][NextBot]_vars

(***************************************************************************)
(* Properties of the dialogue entry points.                                *)
(***************************************************************************)
CallsOf(fn) == {i \in 1..Len(trace) : trace[i].fn = fn}
Assessed(key, default) == DictGet(analysis.d, key, default)
IsEmergencyTrue == analysis.type = "dict" /\ Assessed("is_emergency", JBool(FALSE)) = JBool(TRUE)
\* the turn ran to its end
TurnOver == pc \in {"idle", "listen"}
EmergencyHandled == CallsOf("handle_emergency_situation") # {}
LastEntry == bot_history[Len(bot_history)]

\* C4: in every dialogue entry point, analyze_emergency_intent is called on the
\* utterance before any call of process_user_message for it.
C4_ClassifiedBeforeChat ==
    \A i \in CallsOf("process_user_message") :
        \E j \in CallsOf("analyze_emergency_intent") : j < i /\ trace[j].arg = trace[i].arg

\* C5: in a turn whose assessment has is_emergency true, process_user_message is
\* never called; the turn goes from the classifier to handle_emergency_situation
\* and then back to listening or returning.
C5_EmergencyBypassesChat ==
    IsEmergencyTrue =>
        /\ CallsOf("process_user_message") = {}
        /\ pc \in {"emergency", "listen", "idle", "exit", "done"}
        /\ pc \in {"exit", "done"} => exit_reason = "interrupt"
        /\ TurnOver =>
              /\ EmergencyHandled
              /\ \A i \in CallsOf("handle_emergency_situation") :
                    i > 1 /\ trace[i - 1].fn = "analyze_emergency_intent"

C5_Witness ==
    /\ IsEmergencyTrue
    /\ entry = "loop"
    /\ pc = "listen"
    /\ EmergencyHandled

\* C6: speech_mode_loop leaves its loop only on a stop word (the utterance,
\* trimmed and lower-cased) or on an interrupt; an exception raised in a turn is
\* caught and the loop is back at listening.
ExceptionInTurn == trace # <<>> /\ trace[Len(trace)].fn = "print_exception"
PlanningFailed ==
    /\ net_seen # NoNet
    /\ net_seen.origin = "none" \/ net_seen.dest = "none" \/ net_seen.route # "route"
RECURSIVE AfterBlankLine(_)
AfterBlankLine(toks) ==
    IF Len(toks) < 2 THEN <<>>
    ELSE IF toks[1] = NL /\ toks[2] = NL THEN SubSeq(toks, 3, Len(toks))
    ELSE AfterBlankLine(Tail(toks))

PlannerCalledWith(v) ==
    \E i \in CallsOf("generate_evacuation_route") : trace[i].arg = v
UrgentAssessment ==
    LET u == Assessed("urgency_level", JStr("medium"))
    IN  u.t = "str" /\ u.s \in {"high", "critical"}
Classified == analysis.type # "unset"
Unparseable(outcome) ==
    /\ outcome.kind = "text"
    /\ outcome.text # <<>>
    /\ ~JsonLoads(JsonCandidate(outcome.text)).ok
Scripts == {"assistant_v4", "travel_with_api", "dwani_hazard"}

\* the tool names each script's dispatch tests for
DispatchedTools(s) ==
    IF s = "travel_with_api"
    THEN {"get_current_time", "capture_webcam_image", "get_travel_information"}
    ELSE {"get_current_time", "capture_webcam_image"}

JList(items) == [t |-> "list", s |-> "", raw |-> W(items)]
\* json.dumps of a mapping: a string holding the object's text
JsonDumps(fields) == RawStr(Obj(fields))

\* the zone names pytz knows, as far as the samples go
KnownTimezones == {"Europe/Berlin", "Asia/Kolkata"}
get_current_time(timezone) ==
    IF timezone.t = "str" /\ timezone.raw = <<>> /\ timezone.s \in KnownTimezones
    THEN <<KV("timezone", timezone), KV("current_time", JStr("formatted_time"))>>
    ELSE <<KV("error", JStr("Invalid timezone or failed to fetch time"))>>

\* what the camera and the vision model may do to capture_webcam_image
CameraOutcomes == {"described", "not_opened", "not_sent", "describe_failed"}
capture_webcam_image(camera) ==
    IF camera = "described"
    THEN <<KV("image_path", JStr("temp_path")), KV("description", JStr("description"))>>
    ELSE <<KV("error", JStr(camera))>>

\* what the transit API may answer to get_travel_information
\* (status 200 with trips, status 200 with a body that is not JSON, another
\* status, an exception of the request)
TransitOutcomes == {"200", "200_not_json", "503", "exception"}
StaticOptions == JList(<<"Public Transport", "Walking", "Taxi/Uber">>)

\* get_travel_information that answers a failed request with an error mapping
TravelErrorMapping(start_location, end_location, transit) ==
    IF transit = "200"
    THEN <<KV("start_location", start_location), KV("end_location", end_location),
           KV("options", JList(<<"trip">>))>>
    ELSE <<KV("error", JStr("Failed to get travel information"))>>

\* lines 171-274: the trips of the answer, or the static guidance of the else
\* branch (208-240) and of the except branch (241-274)
get_travel_information(start_location, end_location, transit) ==
    <<KV("start_location", start_location), KV("end_location", end_location),
      KV("options", IF transit = "200" THEN JList(<<"trip">>) ELSE StaticOptions)>>

ToolCall(id, name, arguments) == [id |-> id, name |-> name, arguments |-> arguments]
ToolTurn(content, id) == [role |-> "tool", content |-> content, tool_call_id |-> id]

\* The for loop over response_message.tool_calls.  It appends one tool turn for
\* each call whose name the dispatch tests for, prints a line for any other
\* name, and stops with the exception when the arguments of a call do not
\* decode to a mapping.
RECURSIVE DispatchToolCalls(_, _, _, _)
DispatchToolCalls(s, msgs, tcs, env) ==
    IF tcs = <<>> THEN [messages |-> msgs, raised |-> FALSE]
    ELSE LET tc == Head(tcs)
             args == JsonLoads(tc.arguments)
             decoded == args.ok /\ args.type = "dict"
             answer(data) ==
                 DispatchToolCalls(s, Append(msgs, ToolTurn(JsonDumps(data), tc.id)),
                                   Tail(tcs), env)
             failed == [messages |-> msgs, raised |-> TRUE]
         IN  CASE tc.name = "get_current_time" ->
                    IF decoded
                    THEN answer(get_current_time(
                             DictGet(args.d, "timezone", JStr("Europe/Berlin"))))
                    ELSE failed
               [] tc.name = "capture_webcam_image" ->
                    answer(capture_webcam_image(env.camera))
               [] tc.name = "get_travel_information" /\ tc.name \in DispatchedTools(s) ->
                    IF decoded
                    THEN answer(get_travel_information(
                             DictGet(args.d, "start_location", JStr("Unknown location")),
                             DictGet(args.d, "end_location", JStr("Duesseldorf HBF")),
                             env.transit))
                    ELSE failed
               [] OTHER -> DispatchToolCalls(s, msgs, Tail(tcs), env)

\* What the chat completion may answer: an exception, or a message with a
\* content (possibly None) and a list of tool calls (possibly empty).
ChatReply(content, tcs) == [kind |-> "message", content |-> content, tool_calls |-> tcs]
ChatFails == [kind |-> "exception", content |-> JNull, tool_calls |-> <<>>]
TimeInBerlin == Obj(<<KV("timezone", JStr("Europe/Berlin"))>>)
ChatReplies ==
    { ChatFails,
      ChatReply(JStr("answer"), <<>>),
      ChatReply(JNull, <<>>),
      ChatReply(JNull, <<ToolCall("call_1", "get_current_time", TimeInBerlin),
                         ToolCall("call_2", "get_weather", Obj(<<>>))>>),
      ChatReply(JNull, <<ToolCall("call_1", "get_current_time", <<Junk>>)>>) }

\* record_and_transcribe: None, blank text, or the transcribed text
Recordings == {JNull, JStr(" "), JStr("What is the time in Bonn?")}
IsBlankRecording(r) == r = JNull \/ r = JStr(" ")

(***************************************************************************)
(* SpecChat: one run of chat_with_qwen3 in one of the three scripts.       *)
(***************************************************************************)
InitChat ==
    /\ conversation_history = <<system_message>>
    /\ calls = 0
    /\ reply = NoReply
    /\ frontend = "none"
    /\ BotIdle
    /\ RenderIdle
    /\ ReplyIdle
    /\ VisionIdle
    /\ CallIdle
    /\ script \in Scripts
    /\ qpc = "prompt"
    /\ qmessages = <<>>
    /\ tool_calls = <<>>
    /\ chat_calls = 0
    /\ prompts = 0

\* assistant_v4: an exception inside the inner try is announced and the loop
\* goes on to the next recording; the two scripts have one try around both
\* loops, so an exception ends chat_with_qwen3.
AfterChatError(s) == IF s = "assistant_v4" THEN "prompt" ELSE "stopped"

\* assistant_v4 lines 159-164: record, skip an empty transcription, else
\* append the user turn
RecordAndTranscribe ==
    /\ script = "assistant_v4"
    /\ qpc = "prompt"
    /\ prompts < MaxTurns
    /\ \E r \in Recordings :
          IF IsBlankRecording(r)
          THEN UNCHANGED <<qpc, qmessages, chat_calls, prompts>>
          ELSE /\ qmessages' = Append(qmessages, Turn("user", r))
               /\ qpc' = "chat"
               /\ chat_calls' = 0
               /\ prompts' = prompts + 1
    /\ UNCHANGED <<renderVars, replyVars, visionVars, callVars, histVars, botVars, script, tool_calls>>

\* the two scripts: the next prompt of user_prompts is appended
NextUserPrompt ==
    /\ script \in {"travel_with_api", "dwani_hazard"}
    /\ qpc = "prompt"
    /\ prompts < MaxTurns
    /\ qmessages' = Append(qmessages, Turn("user", JStr("What is the time in Bonn?")))
    /\ qpc' = "chat"
    /\ chat_calls' = 0
    /\ prompts' = prompts + 1
    /\ UNCHANGED <<renderVars, replyVars, visionVars, callVars, histVars, botVars, script, tool_calls>>

\* the two scripts: user_prompts is exhausted and chat_with_qwen3 returns
PromptsExhausted ==
    /\ script \in {"travel_with_api", "dwani_hazard"}
    /\ qpc = "prompt"
    /\ prompts = MaxTurns
    /\ qpc' = "stopped"
    /\ UNCHANGED <<renderVars, replyVars, visionVars, callVars, histVars, botVars, script, qmessages, tool_calls, chat_calls, prompts>>

\* assistant_v4 lines 208-213: Ctrl+C while recording; messages is written to
\* conversation_history.json
ChatInterrupted ==
    /\ script = "assistant_v4"
    /\ qpc = "prompt"
    /\ qpc' = "saved"
    /\ saved_log' = qmessages
    /\ UNCHANGED <<renderVars, replyVars, visionVars, callVars, histVars, loopVars, script, qmessages,
                   tool_calls, chat_calls, prompts>>

\* assistant_v4 lines 163-165 and 214-216: the utterance is appended and the
\* print that follows, outside the inner try, raises; the outer handler reports
\* a fatal error and writes nothing
ChatFatal ==
    /\ script = "assistant_v4"
    /\ qpc = "prompt"
    /\ prompts < MaxTurns
    /\ \E r \in Recordings :
          /\ ~IsBlankRecording(r)
          /\ qmessages' = Append(qmessages, Turn("user", r))
    /\ prompts' = prompts + 1
    /\ qpc' = "fatal"
    /\ UNCHANGED <<renderVars, replyVars, visionVars, callVars, histVars, botVars, script, tool_calls,
                   chat_calls>>

\* One request to the chat completion and what the loop does with the answer.
\* In assistant_v4 the request after the tool turns is the last of the turn:
\* its content is appended whatever else the answer holds.  In the two scripts
\* every answer goes through the same test for tool calls.
ChatCompletion ==
    /\ qpc = "chat"
    /\ chat_calls < MaxChatCalls
    /\ chat_calls' = chat_calls + 1
    /\ \E r \in ChatReplies :
          IF r.kind = "exception"
          THEN /\ qpc' = AfterChatError(script)
               /\ UNCHANGED <<qmessages, tool_calls>>
          ELSE /\ tool_calls' = r.tool_calls
               /\ IF r.tool_calls = <<>> \/ (script = "assistant_v4" /\ chat_calls = 1)
                  THEN /\ qmessages' = Append(qmessages, Turn("assistant", r.content))
                       /\ qpc' = "prompt"
                  ELSE /\ qpc' = "dispatch"
                       /\ UNCHANGED qmessages
    /\ UNCHANGED <<renderVars, replyVars, visionVars, callVars, histVars, botVars, script, prompts>>

\* the for loop over the tool calls of the answer, then back to the chat
\* completion
DispatchTools ==
    /\ qpc = "dispatch"
    /\ \E camera \in CameraOutcomes, transit \in TransitOutcomes :
          LET d == DispatchToolCalls(script, qmessages, tool_calls,
                                     [camera |-> camera, transit |-> transit])
          IN  /\ qmessages' = d.messages
              /\ qpc' = IF d.raised THEN AfterChatError(script) ELSE "chat"
    /\ UNCHANGED <<renderVars, replyVars, visionVars, callVars, histVars, botVars, script, tool_calls, chat_calls, prompts>>

NextChat ==
    \/ RecordAndTranscribe
    \/ NextUserPrompt
    \/ PromptsExhausted
    \/ ChatInterrupted
    \/ ChatFatal
    \/ ChatCompletion
    \/ DispatchTools

SpecChat == InitChat /\ [][NextChat]_vars

\* C2: in chat_with_qwen3, for every chat reply with tool calls, whatever the
\* tool names, the tool turns appended before the next chat call are as many
\* as the tool calls of the reply and carry the ids of distinct calls of it.
AppendedByDispatch == SubSeq(qmessages', Len(qmessages) + 1, Len(qmessages'))
C2_EveryToolCallAnswered ==
    [][(qpc = "dispatch" /\ qpc' = "chat") =>
          /\ Len(AppendedByDispatch) = Len(tool_calls)
          /\ \A i \in 1..Len(AppendedByDispatch) : AppendedByDispatch[i].role = "tool"
          /\ {AppendedByDispatch[i].tool_call_id : i \in 1..Len(AppendedByDispatch)}
                = {tool_calls[i].id : i \in 1..Len(tool_calls)}]_vars

\* C3: for every user turn, whatever the chat model replies, at most two chat
\* calls are issued for that turn.
C3_AtMostTwoChatCalls == chat_calls <= 2


\* C11: in speech_mode_loop, every accepted utterance that is not a stop word
\* leads to a speak_text or speak_emergency_alert call before the next listen,
\* also when the classifier, the planner or the chat call fails.
Spoken == CallsOf("speak_text") \cup CallsOf("speak_emergency_alert")
C11_EveryTurnSpoken ==
    (entry = "loop" /\ pc = "listen" /\ Classified) => Spoken # {}

\* C12: when a chat reply holds a tool call whose name is not a registered
\* tool, a tool turn with that call's tool_call_id and an error payload is
\* appended before the chat model is called again.
IsErrorPayload(content) ==
    \E i \in 1..Len(content.raw) : content.raw[i].tok = "kv" /\ content.raw[i].k = "error"
AnsweredBy(tc, turn) == turn.role = "tool" /\ turn.tool_call_id = tc.id
C12_UnknownToolGetsErrorTurn ==
    [][(qpc = "dispatch" /\ qpc' = "chat") =>
          \A i \in 1..Len(tool_calls) :
              tool_calls[i].name \notin DispatchedTools(script) =>
                  \E j \in 1..Len(AppendedByDispatch) :
                      /\ AnsweredBy(tool_calls[i], AppendedByDispatch[j])
                      /\ IsErrorPayload(AppendedByDispatch[j].content)]_vars

\* C13: for every tool call that names a registered tool, whatever its
\* argument text, the dispatch appends a tool turn with a result or an error
\* mapping and goes on to the follow-up chat call; no exception leaves the
\* dispatch.
AllRegistered ==
    \A i \in 1..Len(tool_calls) : tool_calls[i].name \in DispatchedTools(script)
C13_RegisteredToolNeverRaises ==
    [][(qpc = "dispatch" /\ AllRegistered) =>
          /\ qpc' = "chat"
          /\ \A i \in 1..Len(tool_calls) :
                \E j \in 1..Len(AppendedByDispatch) :
                    AnsweredBy(tool_calls[i], AppendedByDispatch[j])]_vars

\* C14: when the transcription yields nothing (a failure, an empty or a
\* whitespace-only text), the dialogue goes back to listening with the turn
\* log, the bot's conversation_history and AIProcessor.conversation_history
\* unchanged and neither the classifier nor the chat model is called; in
\* assistant_v4 no blank user turn is ever logged or sent to the chat model.
NothingHeardMessages ==
    {W(<<"Error during recording or transcription">>), W(<<"Transcription error">>),
     W(<<"Transcription empty, try again.">>)}
HeardNothing(t) ==
    /\ Len(t) = 1
    /\ t[1].fn = "listen_to_voice"
    /\ \/ t[1].arg.raw = <<>>
       \/ IsSpaceOnly(t[1].arg.raw)
       \/ t[1].arg.raw \in NothingHeardMessages
UserTurns == {i \in 1..Len(qmessages) : qmessages[i].role = "user"}
C14_NothingHeardNothingDone ==
    /\ [][(turns' = turns + 1 /\ HeardNothing(trace')) =>
             /\ pc' = pc
             /\ pc' \in {"listen", "idle"}
             /\ messages' = messages
             /\ bot_history' = bot_history
             /\ conversation_history' = conversation_history
             /\ calls' = calls]_vars
    /\ [](script = "assistant_v4" =>
             /\ \A i \in UserTurns : ~IsBlankRecording(qmessages[i].content)
             /\ (qpc = "chat" /\ chat_calls = 0) =>
                    /\ qmessages # <<>>
                    /\ Len(qmessages) \in UserTurns)

C14_Witness ==
    /\ entry = "loop"
    /\ pc = "listen"
    /\ turns = 2
    /\ HeardNothing(trace)
    /\ trace[1].arg.raw = W(<<"Transcription empty, try again.">>)
    /\ Len(messages) = 2
    /\ Len(conversation_history) = 3

\* C17: when an append makes conversation_history longer than 21 entries, the
\* history becomes the system message followed by exactly the 20 turns appended
\* last, in the order in which they were appended.
Exchanges(h) == (Len(h) - 1) \div 2
AskedTurn(n) == Turn("user", UserContent(FALSE, HistMessage(n)))
C17_TrimKeepsLatestTwentyInOrder ==
    /\ [](LET h == conversation_history
              n == Exchanges(h)
          IN  /\ h[1] = system_message
              /\ Len(h) = 2 * n + 1
              /\ n = IF asked < 10 THEN asked ELSE 10
              /\ \A i \in 1..n :
                    /\ h[2 * i] = AskedTurn(asked - n + i)
                    /\ h[2 * i + 1].role = "assistant")
    /\ [][(asked' = asked + 1 /\ Len(conversation_history) + 2 > 21) =>
             /\ Len(conversation_history') = 21
             /\ conversation_history'[1] = system_message
             /\ SubSeq(conversation_history', 2, 19)
                   = SubSeq(conversation_history, Len(conversation_history) - 17,
                            Len(conversation_history))
             /\ conversation_history'[20] = AskedTurn(asked')
             /\ conversation_history'[21] = Turn("assistant", reply'["speak"])]_vars

C17_Witness ==
    /\ asked = 12
    /\ Len(conversation_history) = 21
    /\ conversation_history[2] = AskedTurn(3)
    /\ conversation_history[20] = AskedTurn(12)

\* C18: rendering the conversation for the model (conversation_history plus the
\* pending user message) leaves conversation_history as it was, and two
\* renderings with no append between them give the same sequence of turns.
CallFailed(r) == r = ErrorReply
C18_RenderingIsPure ==
    [][calls' = calls + 1 =>
          /\ CallFailed(reply') => conversation_history' = conversation_history
          /\ ~CallFailed(reply') =>
                Len(conversation_history') <= Len(conversation_history) + 2
          /\ Len(rendered') = Len(conversation_history) + 1
          /\ \A i \in 1..Len(conversation_history) :
                rendered'[i].content = conversation_history[i].content
          /\ (calls >= 1 /\ CallFailed(reply)) => rendered' = rendered]_vars

C18_Witness ==
    /\ calls = 3
    /\ asked = 1
    /\ CallFailed(reply)
    /\ Len(rendered) = 4
    /\ rendered[4].content = UserContent(FALSE, HistMessage(2))
    /\ Len(conversation_history) = 3

(***************************************************************************)
(* SpecReply: _parse_structured_response and process_user_message applied  *)
(* to one model answer, on a fresh AIProcessor.                            *)
(***************************************************************************)
ReplyAlphabet ==
    {LBrace, RBrace, Junk, NL, KV("speak", JStr("Turn left")), KV("action", JStr("navigate"))}

RECURSIVE TextsOfLen(_)
TextsOfLen(n) ==
    IF n = 0 THEN {<<>>}
    ELSE {Append(t, c) : t \in TextsOfLen(n - 1), c \in ReplyAlphabet}
ShortTexts == UNION {TextsOfLen(n) : n \in 0..MaxTextLen}

\* a JSON object that holds the fields of S, in the order of the reply format
ReplyKeyOrder ==
    <<"speak", "action", "direction", "distance", "urgency", "hazards_detected",
      "safe_direction">>
ObjectWith(S) ==
    LET Held(k) == k \in S
        held == SelectSeq(ReplyKeyOrder, Held)
    IN  Obj([i \in 1..Len(held) |-> KV(held[i], JStr("from model"))])

ModelAnswers ==
    {Raises, NoText} \cup {Says(t) : t \in ShortTexts}
        \cup {Says(ObjectWith(S)) : S \in SUBSET ReplyKeys}

InitReply ==
    /\ conversation_history = <<system_message>>
    /\ calls = 0
    /\ reply = NoReply
    /\ frontend = "none"
    /\ BotIdle
    /\ ChatIdle
    /\ RenderIdle
    /\ VisionIdle
    /\ CallIdle
    /\ model_text \in ModelAnswers
    /\ parsed = EmptyDict
    /\ returned = EmptyDict

\* _parse_structured_response is given the text of the answer
ApplyParseStructuredResponse ==
    /\ model_text.kind \in {"none", "text"}
    /\ parsed = EmptyDict
    /\ parsed' = ParseStructuredResponse(model_text)
    /\ UNCHANGED <<visionVars, callVars, histVars, botVars, chatVars, renderVars, model_text, returned>>

\* process_user_message is called and the model gives the answer
ApplyProcessUserMessage ==
    /\ model_text # NotAsked
    /\ returned = EmptyDict
    /\ returned' = ProcessUserMessage(conversation_history, HistMessage(1), FALSE,
                                      model_text).reply
    /\ UNCHANGED <<visionVars, callVars, histVars, botVars, chatVars, renderVars, model_text, parsed>>

NextReply == ApplyParseStructuredResponse \/ ApplyProcessUserMessage

SpecReply == InitReply /\ [][NextReply]_vars

\* C15: for every model text without a parseable JSON object (no braces, or a
\* brace block that fails to parse), _parse_structured_response returns a reply
\* with action none, urgency low and speak equal to the raw text, and that
\* speak is never empty.
NoParseableObject(text) ==
    \/ ~HasBraceMatch(text)
    \/ ~JsonLoads(ReplaceNewlines(BraceMatch(text))).ok
C15_MalformedTextBecomesSpeak ==
    (model_text.kind = "text" /\ parsed # EmptyDict /\ NoParseableObject(model_text.text)) =>
        /\ parsed["action"] = JStr("none")
        /\ parsed["urgency"] = JStr("low")
        /\ parsed["speak"] = RawStr(model_text.text)
        /\ parsed["speak"].raw # <<>>

\* C16: every value process_user_message returns, with any subset of the
\* fields in the model's JSON and on the exception path, holds all seven reply
\* fields.
C16_ReplyHasAllFields ==
    returned # EmptyDict => ReplyKeys \subseteq DOMAIN returned

C16_Witness ==
    /\ model_text = Says(ObjectWith({"action", "distance"}))
    /\ returned # EmptyDict
    /\ returned["action"] = JStr("from model")
    /\ returned["urgency"] = JStr("low")
    /\ returned["speak"] = RawStr(model_text.text)

(***************************************************************************)
(* sachin/vision_assistance.py (and assistant_v3.py, which has the same    *)
(* two threads): background_image_capture and the chat loop of             *)
(* chat_with_qwen3 share latest_image_description under description_lock.  *)
(***************************************************************************)
\* what capture number k returns when the vision model answers
CapturePair(k) ==
    [description |-> JStr("image " \o ToString(k)), timestamp |-> JNum(ToString(k))]
Described(k) ==
    [kind |-> "description", description |-> CapturePair(k).description,
     timestamp |-> CapturePair(k).timestamp]
CaptureError == [kind |-> "error", description |-> JNull, timestamp |-> JNull]

\* background_image_capture that takes description_lock before it captures
ProducerStepLockFirst(p) ==
    CASE p = "sleep" -> "acquire"
      [] p = "acquire" -> "capture"
      [] p = "capture" -> "write"
      [] p = "write" -> "release"
      [] p = "release" -> "sleep"

\* lines 147-155: the order of the statements of background_image_capture
ProducerStep(p) ==
    CASE p = "capture" -> "acquire"
      [] p = "acquire" -> "write"
      [] p = "write" -> "release"
      [] p = "release" -> "sleep"
      [] p = "sleep" -> "capture"

\* a chat loop that reads the cache without description_lock
ReaderStepNoLock(p) ==
    CASE p = "record" -> "read_description"
      [] p = "read_description" -> "read_timestamp"
      [] p = "read_timestamp" -> "chat"
      [] p = "chat" -> "record"
      [] OTHER -> "chat"

\* lines 236-250: the order of the statements of one turn of the chat loop
ReaderStep(p) ==
    CASE p = "record" -> "acquire"
      [] p = "acquire" -> "read_description"
      [] p = "read_description" -> "read_timestamp"
      [] p = "read_timestamp" -> "release"
      [] p = "release" -> "chat"
      [] p = "chat" -> "record"

\* lines 245-246 and 249
TimestampStr(image_timestamp) ==
    IF IsTruthy(image_timestamp) THEN "at " \o image_timestamp.s ELSE "No image"
VisionPrompt(text, pair) ==
    [t |-> "str", s |-> "User: | Image (): ",
     raw |-> <<Tok(text.s), Tok(TimestampStr(pair.timestamp)),
               Tok(IF IsTruthy(pair.description) THEN pair.description.s
                   ELSE "No description")>>]

VisionRecordings == {JNull, JStr("What do you see?")}
VisionReplies ==
    { ChatFails,
      ChatReply(JStr("answer"), <<>>),
      ChatReply(JNull, <<ToolCall("call_1", "get_current_time", TimeInBerlin)>>) }

InitVision ==
    /\ conversation_history = <<system_message>>
    /\ calls = 0
    /\ reply = NoReply
    /\ frontend = "none"
    /\ BotIdle
    /\ ChatIdle
    /\ RenderIdle
    /\ ReplyIdle
    /\ CallIdle
    /\ latest_image_description = InitialDescription
    /\ description_lock = "free"
    /\ ppc = "capture"
    /\ image_data = NoImageData
    /\ captures = 0
    /\ rpc = "record"
    /\ seen = InitialDescription
    /\ transcribed_text = JNull
    /\ vmessages = <<>>
    /\ vturns = 0

ProducerVars == <<latest_image_description, description_lock, ppc, image_data, captures>>
ReaderVars == <<rpc, seen, transcribed_text, vmessages, vturns>>
NotVision == <<histVars, botVars, chatVars, renderVars, replyVars, callVars>>

\* line 148: capture_webcam_image returns, with a description or with an error
CaptureReturns ==
    /\ ppc = "capture"
    /\ captures < MaxCaptures
    /\ image_data' \in {Described(captures + 1), CaptureError}
    /\ captures' = captures + 1
    /\ ppc' = ProducerStep(ppc)
    /\ UNCHANGED <<latest_image_description, description_lock, ReaderVars, NotVision>>

\* line 149: with description_lock is entered
ProducerAcquire ==
    /\ ppc = "acquire"
    /\ description_lock = "free"
    /\ description_lock' = "producer"
    /\ ppc' = ProducerStep(ppc)
    /\ UNCHANGED <<latest_image_description, image_data, captures, ReaderVars, NotVision>>

\* a producer that rebinds the cache whatever the capture gave
CacheAfterAnyCapture(cache, data) ==
    [description |-> data.description, timestamp |-> data.timestamp]

\* lines 150-154: the cache is rebound when the capture gave a description
CacheAfterCapture(cache, data) ==
    IF data.kind = "description"
    THEN [description |-> data.description, timestamp |-> data.timestamp]
    ELSE cache
ProducerWrite ==
    /\ ppc = "write"
    /\ latest_image_description' = CacheAfterCapture(latest_image_description, image_data)
    /\ ppc' = ProducerStep(ppc)
    /\ UNCHANGED <<description_lock, image_data, captures, ReaderVars, NotVision>>

\* the with block of line 149 is left
ProducerRelease ==
    /\ ppc = "release"
    /\ description_lock' = "free"
    /\ ppc' = ProducerStep(ppc)
    /\ UNCHANGED <<latest_image_description, image_data, captures, ReaderVars, NotVision>>

\* line 155: the sleep of 10 seconds is over
ProducerSleep ==
    /\ ppc = "sleep"
    /\ ppc' = ProducerStep(ppc)
    /\ UNCHANGED <<latest_image_description, description_lock, image_data, captures, ReaderVars,
                   NotVision>>

\* lines 236-239: record; nothing heard, or an utterance
VisionRecord ==
    /\ rpc = "record"
    /\ vturns < MaxTurns
    /\ \E r \in VisionRecordings :
          IF IsBlankRecording(r)
          THEN UNCHANGED <<rpc, transcribed_text, vturns>>
          ELSE /\ transcribed_text' = r
               /\ vturns' = vturns + 1
               /\ rpc' = ReaderStep(rpc)
    /\ UNCHANGED <<seen, vmessages, ProducerVars, NotVision>>

\* line 242: with description_lock is entered
ReaderAcquire ==
    /\ rpc = "acquire"
    /\ description_lock = "free"
    /\ description_lock' = "reader"
    /\ rpc' = ReaderStep(rpc)
    /\ UNCHANGED <<latest_image_description, ppc, image_data, captures, seen, transcribed_text,
                   vmessages, vturns, NotVision>>

\* line 243
ReadDescription ==
    /\ rpc = "read_description"
    /\ seen' = [seen EXCEPT !.description = latest_image_description.description]
    /\ rpc' = ReaderStep(rpc)
    /\ UNCHANGED <<transcribed_text, vmessages, vturns, ProducerVars, NotVision>>

\* line 244
ReadTimestamp ==
    /\ rpc = "read_timestamp"
    /\ seen' = [seen EXCEPT !.timestamp = latest_image_description.timestamp]
    /\ rpc' = ReaderStep(rpc)
    /\ UNCHANGED <<transcribed_text, vmessages, vturns, ProducerVars, NotVision>>

\* the with block of line 242 is left
ReaderRelease ==
    /\ rpc = "release"
    /\ description_lock' = "free"
    /\ rpc' = ReaderStep(rpc)
    /\ UNCHANGED <<latest_image_description, ppc, image_data, captures, seen, transcribed_text,
                   vmessages, vturns, NotVision>>

\* lines 249-306: the prompt is appended and the chat model asked; tool calls
\* are dispatched and the model asked again.  An exception, also the one of
\* content.strip() on a missing content, ends the turn with what was appended.
Answered(msgs, r) ==
    IF r.kind = "exception" \/ r.content = JNull
    THEN msgs
    ELSE Append(msgs, Turn("assistant", r.content))
VisionChat ==
    /\ rpc = "chat"
    /\ \E r1 \in VisionReplies, r2 \in VisionReplies, camera \in CameraOutcomes :
          LET asked_msgs ==
                  Append(vmessages, Turn("user", VisionPrompt(transcribed_text, seen)))
              d == DispatchToolCalls("vision_assistance", asked_msgs, r1.tool_calls,
                                     [camera |-> camera, transit |-> "200"])
          IN  vmessages' =
                  IF r1.kind = "exception" THEN asked_msgs
                  ELSE IF r1.tool_calls = <<>> THEN Answered(asked_msgs, r1)
                  ELSE IF d.raised THEN d.messages
                  ELSE Answered(d.messages, r2)
    /\ rpc' = ReaderStep(rpc)
    /\ UNCHANGED <<seen, transcribed_text, vturns, ProducerVars, NotVision>>

\* lines 308-311: Ctrl+C while recording; messages is written to
\* conversation_history.json
VisionInterrupted ==
    /\ rpc = "record"
    /\ rpc' = "saved"
    /\ saved_log' = vmessages
    /\ UNCHANGED <<seen, transcribed_text, vmessages, vturns, ProducerVars, histVars, loopVars,
                   chatVars, renderVars, replyVars, callVars>>

\* lines 236-238 and 312-313: a statement of the loop outside the inner try
\* raises; the outer handler reports a fatal error and writes nothing
VisionFatal ==
    /\ rpc = "record"
    /\ rpc' = "fatal"
    /\ UNCHANGED <<seen, transcribed_text, vmessages, vturns, ProducerVars, NotVision>>

NextVision ==
    \/ VisionInterrupted
    \/ VisionFatal
    \/ CaptureReturns
    \/ ProducerAcquire
    \/ ProducerWrite
    \/ ProducerRelease
    \/ ProducerSleep
    \/ VisionRecord
    \/ ReaderAcquire
    \/ ReadDescription
    \/ ReadTimestamp
    \/ ReaderRelease
    \/ VisionChat

SpecVision == InitVision /\ [][NextVision]_vars

\* The holder of description_lock goes on, and the chat loop gets the lock when
\* it is free often enough; nothing is assumed of the capture.
SpecVisionFair ==
    /\ SpecVision
    /\ WF_vars(ProducerWrite)
    /\ WF_vars(ProducerRelease)
    /\ SF_vars(ReaderAcquire)
    /\ WF_vars(ReadDescription)
    /\ WF_vars(ReadTimestamp)
    /\ WF_vars(ReaderRelease)

\* C19: under any interleaving of the capture thread and the chat loop, the
\* description and timestamp the chat loop has read are the initial pair or
\* the pair of one capture, never the description of one capture with the
\* timestamp of another.
PairOfOneCapture(pair) ==
    \/ pair = InitialDescription
    \/ \E k \in 1..captures : pair = CapturePair(k)
C19_PairIsNeverTorn ==
    rpc \in {"release", "chat"} => PairOfOneCapture(seen)

C19_Witness ==
    /\ rpc = "chat"
    /\ vturns = 2
    /\ seen = CapturePair(1)
    /\ latest_image_description = CapturePair(2)

\* C20: background_image_capture never holds description_lock while the
\* capture is in progress, so the chat loop reading the cache always gets on,
\* also when a capture never returns.
C20_CaptureOutsideLock ==
    /\ [](ppc = "capture" => description_lock # "producer")
    /\ (rpc = "acquire" ~> rpc = "chat")

C20_Witness ==
    /\ ppc = "capture"
    /\ captures = 1
    /\ rpc = "chat"
    /\ seen = CapturePair(1)

\* C21: whenever a dialogue loop has ended, by the stop word, by an interrupt
\* or by a fatal exception, conversation_history.json holds the messages log
\* of that loop, every turn appended so far in order.
LoopEnded ==
    \/ entry = "loop" /\ pc = "exit"
    \/ script = "assistant_v4" /\ qpc \in {"saved", "fatal"}
    \/ rpc \in {"saved", "fatal"}
LogOfEndedLoop ==
    IF entry = "loop" THEN messages
    ELSE IF script = "assistant_v4" THEN qmessages
    ELSE vmessages
C21_LogSavedWhenLoopEnds ==
    LoopEnded => saved_log = LogOfEndedLoop

\* C22: in the voice chat loop, when the chat call or the tool dispatch raises
\* during a user turn, the turn is a no-op: the messages log after the failed
\* turn is the log before the utterance was accepted.
LastUtterance(log) ==
    Max({i \in 1..Len(log) : log[i].role = "user"})
BeforeLastUtterance(log) == SubSeq(log, 1, LastUtterance(log) - 1)
TurnFailed ==
    /\ script = "assistant_v4"
    /\ qpc \in {"chat", "dispatch"}
    /\ qpc' = "prompt"
    /\ qmessages'[Len(qmessages')].role # "assistant"
C22_FailedTurnIsNoOp ==
    [][TurnFailed => qmessages' = BeforeLastUtterance(qmessages)]_vars

(***************************************************************************)
(* SpecCalls: one function of the repository called on its own, with       *)
(* arguments and an environment drawn from small sets.                     *)
(***************************************************************************)
\* a catalog that holds the places of the given keys
CatalogOf(keys) == [k \in keys |-> safe_places[k]]
Catalogs == {CatalogOf(keys) : keys \in SUBSET DOMAIN safe_places}

\* emergency types: the five with a priority list, one without, and no type
EmergencyTypes ==
    {JStr("fire"), JStr("medical"), JStr("structural"), JStr("chemical"), JStr("general"),
     JStr("flood"), JNull}

NearestSafePlaceCalls ==
    {[fn |-> "get_nearest_safe_place", args |-> <<catalog, emergency_type>>] :
        catalog \in Catalogs, emergency_type \in EmergencyTypes}

\* get_nearest_safe_place of a NavigationHandler whose safe_places is the catalog
CallGetNearestSafePlace ==
    /\ called.fn = "get_nearest_safe_place"
    /\ call_result = <<>>
    /\ call_result' = <<GetNearestSafePlace(called.args[1], called.args[2])>>
    /\ UNCHANGED <<histVars, botVars, chatVars, renderVars, replyVars, visionVars, called>>

\* DwaniAIBot.navigate_to_safe_place, lines 344-365: the text it returns and
\* the calls it made.  The route is asked of generate_evacuation_route for the
\* emergency type "general" (line 352), whatever the key.
NavigateToSafePlace(safe_place_key, net) ==
    IF safe_place_key \notin DOMAIN safe_places
    THEN [text |-> Text(<<"Safe place", safe_place_key, "not found.", "Available places:">>),
          calls |-> <<>>]
    ELSE LET safe_place == safe_places[safe_place_key]
             route_info == GenerateEvacuationRoute(JStr("general"), net)
             planned == <<Call("generate_evacuation_route", JStr("general"))>>
         IN  IF ~route_info.found
             THEN [text |-> Text(<<"Could not generate route to", safe_place.name>>),
                   calls |-> planned]
             ELSE [text |-> FormatRouteInstructions(route_info),
                   calls |-> planned \o
                       <<Call("speak_text",
                              Text(<<"Navigating to", safe_place.name, "Distance:",
                                     route_info.distance, "meters.">>))>>]

\* the keys of the catalog and one key that is not in it
SafePlaceKeys == DOMAIN safe_places \cup {"stadium"}
NavigateCalls ==
    {[fn |-> "navigate_to_safe_place", args |-> <<key, net>>] :
        key \in SafePlaceKeys, net \in PlannerOutcomes}

CallNavigateToSafePlace ==
    /\ called.fn = "navigate_to_safe_place"
    /\ call_result = <<>>
    /\ call_result' = <<NavigateToSafePlace(called.args[1], called.args[2])>>
    /\ UNCHANGED <<histVars, botVars, chatVars, renderVars, replyVars, visionVars, called>>

TravelLocations == {JStr("Unknown location"), JStr("Koenigsallee"), JStr("Duesseldorf HBF")}
TravelCalls ==
    {[fn |-> "get_travel_information", args |-> <<start, end, transit>>] :
        start \in TravelLocations, end \in TravelLocations, transit \in TransitOutcomes}

CallGetTravelInformation ==
    /\ called.fn = "get_travel_information"
    /\ call_result = <<>>
    /\ call_result' =
          <<get_travel_information(called.args[1], called.args[2], called.args[3])>>
    /\ UNCHANGED <<histVars, botVars, chatVars, renderVars, replyVars, visionVars, called>>

InitCalls ==
    /\ conversation_history = <<system_message>>
    /\ calls = 0
    /\ reply = NoReply
    /\ frontend = "none"
    /\ BotIdle
    /\ ChatIdle
    /\ RenderIdle
    /\ ReplyIdle
    /\ VisionIdle
    /\ called \in NearestSafePlaceCalls \cup NavigateCalls \cup TravelCalls
    /\ call_result = <<>>

NextCalls ==
    \/ CallGetNearestSafePlace
    \/ CallNavigateToSafePlace
    \/ CallGetTravelInformation

SpecCalls == InitCalls /\ [][NextCalls]_vars

HasReturned(fn) == called.fn = fn /\ call_result # <<>>

\* the keys of the priority list that get_nearest_safe_place goes through
PriorityListOf(emergency_type) ==
    IF emergency_type \in {JStr("fire"), JStr("medical"), JStr("structural"), JStr("chemical")}
    THEN priority_map[emergency_type.s]
    ELSE priority_map["general"]
FirstPresent(catalog, keys, i) ==
    /\ keys[i] \in DOMAIN catalog
    /\ \A j \in 1..(i - 1) : keys[j] \notin DOMAIN catalog

RequestFailed(transit) == transit \in {"503", "exception"}
C25_TravelAlwaysAnswers ==
    HasReturned("get_travel_information") =>
        LET r == call_result[1]
        IN  /\ Len(r) = 3
            /\ r[1] = KV("start_location", called.args[1])
            /\ r[2] = KV("end_location", called.args[2])
            /\ r[3].k = "options"
            /\ RequestFailed(called.args[3]) =>
                   r[3].v.raw = W(<<"Public Transport", "Walking", "Taxi/Uber">>)

C25_Witness ==
    /\ HasReturned("get_travel_information")
    /\ called.args[3] = "exception"
    /\ called.args[1] = JStr("Koenigsallee")
    /\ call_result[1][3] = KV("options", StaticOptions)

\* C26: for every safe_place_key of the catalog, when a route is produced,
\* navigate_to_safe_place returns instructions whose destination is the safe
\* place of that key; for a key that is not in the catalog it returns a
\* not-found message and asks for no route.
DestinationOf(instructions) == instructions.raw[3].tok
RouteProduced(r) == \E i \in 1..Len(r.calls) : r.calls[i].fn = "speak_text"
C26_NavigatesToRequestedPlace ==
    HasReturned("navigate_to_safe_place") =>
        LET key == called.args[1]
            r == call_result[1]
        IN  IF key \in DOMAIN safe_places
            THEN RouteProduced(r) => DestinationOf(r.text) = safe_places[key].name
            ELSE /\ r.text.raw[3] = Tok("not found.")
                 /\ r.calls = <<>>

\* C24: no user or assistant turn with empty or null content is ever appended
\* to a conversation log, whatever the transcription and whatever the chat
\* model replies (a null content and an empty speak field included).
IsEmptyContent(content) ==
    \/ content.t = "null"
    \/ content.t = "str" /\ content.s = "" /\ content.raw = <<>>
NoEmptyTurn(log) ==
    \A i \in 1..Len(log) :
        log[i].role \in {"user", "assistant"} => ~IsEmptyContent(log[i].content)
C24_NoEmptyTurnAppended ==
    /\ NoEmptyTurn(qmessages)
    /\ NoEmptyTurn(vmessages)
    /\ NoEmptyTurn(messages)
    /\ NoEmptyTurn(conversation_history)

\* C27: the emergency branch is taken only when is_emergency of the assessment
\* is the boolean true; for any other value (absent, false, null, a string such
\* as "false") the turn takes the chat branch.
C27_EmergencyOnlyOnBooleanTrue ==
    /\ pc = "emergency" => Assessed("is_emergency", JBool(FALSE)) = JBool(TRUE)
    /\ EmergencyHandled => Assessed("is_emergency", JBool(FALSE)) = JBool(TRUE)

\* C28: after any sequence of process_user_message calls the entries of
\* conversation_history after the system turn alternate user, assistant,
\* starting with a user turn and ending with an assistant turn; a trim removes
\* whole user/assistant pairs only, so no assistant turn is left without the
\* user turn before it.
Alternates(h) ==
    /\ Len(h) % 2 = 1
    /\ \A i \in 2..Len(h) :
          h[i].role = IF i % 2 = 0 THEN "user" ELSE "assistant"
DroppedWholePairs(old, new) ==
    LET dropped == Len(old) + 2 - Len(new)
    IN  /\ dropped >= 0
        /\ dropped % 2 = 0
        /\ \A i \in 2..(Len(old) - dropped) : new[i] = old[i + dropped]
C28_HistoryAlternatesInPairs ==
    /\ [](Alternates(conversation_history))
    /\ [][conversation_history' # conversation_history =>
              DroppedWholePairs(conversation_history, conversation_history')]_vars

C28_Witness ==
    /\ asked = 11
    /\ calls = 12
    /\ Len(conversation_history) = 21
    /\ conversation_history[2] = AskedTurn(2)
    /\ conversation_history[21].role = "assistant"

\* C29: when the model call or the parsing of its answer raises inside
\* process_user_message, conversation_history is left exactly as it was before
\* the call (no user turn, no assistant turn) and the error reply is returned.
ModelCallRaised == calls' = calls + 1 /\ asked' = asked
C29_FailedCallLeavesHistory ==
    [][ModelCallRaised =>
            /\ conversation_history' = conversation_history
            /\ reply' = ErrorReply]_vars

C29_Witness ==
    /\ calls = 2
    /\ asked = 1
    /\ reply = ErrorReply
    /\ Len(conversation_history) = 3
    /\ conversation_history[2] = AskedTurn(1)

\* C30: when a background capture fails (its result has no description),
\* latest_image_description is left as it was, so the cache always holds the
\* initial empty value or the result of the most recent successful capture.
C30_FailedCaptureKeepsCache ==
    /\ [](PairOfOneCapture(latest_image_description))
    /\ [][latest_image_description' # latest_image_description =>
              /\ image_data = Described(captures)
              /\ latest_image_description' = CapturePair(captures)]_vars
    /\ [][(ppc = "write" /\ ppc' # ppc /\ image_data = CaptureError) =>
              latest_image_description' = latest_image_description]_vars

C30_Witness ==
    /\ captures = 2
    /\ image_data = CaptureError
    /\ ppc = "sleep"
    /\ latest_image_description = CapturePair(1)

(***************************************************************************)
(* The repository as a whole: a run is one of the programs above.          *)
(***************************************************************************)
Init == InitHistory \/ InitBot \/ InitChat \/ InitReply \/ InitVision \/ InitCalls
Next == NextHistory \/ NextBot \/ NextChat \/ NextReply \/ NextVision \/ NextCalls
Spec == Init /\ [][Next]_vars

====
